---- MODULE Spec2Model ----
(***************************************************************************)
(* Speech-dispatch client of main.py: the reconnecting websocket listener  *)
(* (listen), the speaker registry file (handle_speaker_info), the voice    *)
(* and pitch allocation (get_random_voice, get_random_pitch), the text     *)
(* replacement (replace_strings), the synthesis/playback step             *)
(* (speak_text) and the trimming of the output directory                   *)
(* (cleanup_old_files).                                                    *)
(*                                                                         *)
(* Strings that the program transforms (payload text, replacement keys)    *)
(* are sequences of one-character strings.  Strings that the program only  *)
(* compares or passes on (names, races, voices) are TLA+ strings.          *)
(***************************************************************************)
EXTENDS Integers, Sequences, FiniteSets, TLC

VARIABLES
    pc,          \* where the listen() / main() coroutine is suspended
    store,       \* content of the speaker file: sequence of speaker records
    last_voice,  \* local variable last_voice of listen()
    cur,         \* <<>> or <<message>>: the message whose dispatch ran last on this connection
    found,       \* <<>> or <<record>>: result of the (name, race) lookup for cur
    calls,       \* effects of the dispatch of cur: store writes and collaborator calls, in order
    inflight,    \* <<>> or <<call>>: the edge_tts save() being awaited
    mixer,       \* pygame: "init" after pygame.mixer.init(), "quit" after pygame.quit()
    err,         \* exception that sent the client into its retry delay, or "none"
    retries,     \* consecutive retry delays since the last successful connect (saturating)
    cancelledAt, \* "none", or where the client was when the host requested cancellation
    pending,     \* TRUE while a requested cancellation has not been raised in the coroutine
    outdir,      \* number of regular files in config["output_directory"]
    call,        \* a function of the module called on its own: its name and arguments
    ret          \* <<>>, or <<what the function called returned>>

vars == <<pc, store, last_voice, cur, found, calls, inflight, mixer, err, retries, cancelledAt, pending,
          outdir, call, ret>>

----------------------------------------------------------------------------
(* Bounds of the model *)

\* Say events for unknown speakers are offered while the store holds fewer records than this.
MaxSpeakers == 2
\* The retry counter saturates here; the retry loop itself is not bounded.
MaxRetries == 2
\* A failing step leaves a file behind only while the output directory holds fewer than this.
MaxArtifacts == 2
\* Directories given to cleanup_old_files on its own hold up to MaxFiles files, with
\* modification times in 1..MaxMtime; the limits given to it are 0..MaxFiles.
MaxFiles == 3
MaxMtime == 2

----------------------------------------------------------------------------
(* Configuration (config.json) and the inputs the server can send *)

None == "None"

\* config["voices"]: one gender with several voices, one with a single voice.
Voices == [male |-> <<"m1", "m2">>, female |-> <<"f1">>]

\* config["string_replacements"], in dictionary order.
StringReplacements ==
    << [key |-> <<"a">>, val |-> <<"b">>],
       [key |-> <<"b">>, val |-> <<>>] >>

\* config["max_output_files"]
MaxOutputFiles == 1

\* (Speaker, Race) pairs appearing in the stream.
Cast == { <<"Kan", "Lalafell">>, <<"Bo", "Roegadyn">>, <<"Bo", "Unknown">> }

\* Voice.Name values appearing in the stream.
Genders == {"Male", "Female"}

\* Payload texts appearing in the stream.
Payloads == { <<"A", " ", "b">>, <<"b">>, <<>> }

SayMessages ==
    { [Type |-> "Say", Speaker |-> c[1], Gender |-> g, Race |-> c[2], Payload |-> p] :
        c \in Cast, g \in Genders, p \in Payloads }

\* A Cancel event, an event of an unrecognized type, and a text json.loads rejects.
\* The fields of a non-Say message are the defaults of data.get(...).
Plain(t) == [Type |-> t, Speaker |-> "", Gender |-> "Male", Race |-> "Unknown", Payload |-> <<>>]

Messages == SayMessages \cup { Plain("Cancel"), Plain("Other"), Plain("Malformed") }

----------------------------------------------------------------------------
(* str.lower() *)

LowerChar(c) ==
    CASE c = "A" -> "a"
      [] c = "B" -> "b"
      [] OTHER -> c

Lower(s) == [i \in 1..Len(s) |-> LowerChar(s[i])]

\* gender.lower() on the Voice.Name strings
LowerName(g) ==
    CASE g = "Male" -> "male"
      [] g = "Female" -> "female"
      [] OTHER -> g

----------------------------------------------------------------------------
(* replace_strings: re.compile(r"\b(" + "|".join(keys) + r")\b").sub(...) *)

IsWordChar(c) == c \in {"a", "b", "A", "B"}

WordAt(text, p) == p \in 1..Len(text) /\ IsWordChar(text[p])

\* \b before position p (p = Len(text) + 1 is the end of the text)
Boundary(text, p) == WordAt(text, p - 1) # WordAt(text, p)

\* The alternatives of the group; joining no keys gives the one empty alternative.
Alternatives(rules) ==
    IF rules = <<>> THEN << <<>> >> ELSE [i \in 1..Len(rules) |-> rules[i].key]

MatchesAt(text, p, k) ==
    /\ p + Len(k) - 1 <= Len(text)
    /\ SubSeq(text, p, p + Len(k) - 1) = k
    /\ Boundary(text, p)
    /\ Boundary(text, p + Len(k))

\* Index of the first alternative with which the pattern matches at p, or 0.
FirstMatch(text, p, alts) ==
    LET hits == {i \in 1..Len(alts) : MatchesAt(text, p, alts[i])}
    IN  IF hits = {} THEN 0 ELSE CHOOSE i \in hits : \A j \in hits : i <= j

\* replacements[x.group()]: <<value>>, or <<>> for a KeyError
Replacement(rules, k) ==
    LET at == {i \in 1..Len(rules) : rules[i].key = k}
    IN  IF at = {} THEN <<>> ELSE <<rules[CHOOSE i \in at : TRUE].val>>

KeyError == [ok |-> FALSE, text |-> <<>>]

RECURSIVE SubFrom(_, _, _, _)
\* The substitution from position p on, out being the output for the text before p:
\* [ok, text], ok = FALSE for a KeyError.  An empty match is replaced and the scan moves
\* one character on.
SubFrom(text, p, rules, out) ==
    IF p > Len(text) + 1 THEN [ok |-> TRUE, text |-> out]
    ELSE LET alts == Alternatives(rules)
             i    == FirstMatch(text, p, alts)
             here == IF p <= Len(text) THEN <<text[p]>> ELSE <<>>
         IN  IF i = 0
             THEN SubFrom(text, p + 1, rules, out \o here)
             ELSE LET hit == Replacement(rules, alts[i])
                  IN  IF hit = <<>> THEN KeyError
                      ELSE IF Len(alts[i]) = 0
                           THEN SubFrom(text, p + 1, rules, out \o hit[1] \o here)
                           ELSE SubFrom(text, p + Len(alts[i]), rules, out \o hit[1])

ReplaceStrings(text, replacements) == SubFrom(text, 1, replacements, <<>>)

----------------------------------------------------------------------------
(* get_random_voice, get_random_pitch *)

\* config["voices"].get(gender.lower(), config["voices"]["male"])
GetPool(gender) ==
    IF LowerName(gender) \in DOMAIN Voices THEN Voices[LowerName(gender)] ELSE Voices["male"]

\* Variant: the filter on last_voice is left out.
AvailableVoicesUnfiltered(gender, last) == GetPool(gender)

\* available_voices after the filter on last_voice
AvailableVoices(gender, last) ==
    IF last # None
    THEN SelectSeq(GetPool(gender), LAMBDA v : v # last)
    ELSE GetPool(gender)

\* The values random.choice(available_voices) can return; none: it raises IndexError.
GetRandomVoice(gender, last) ==
    {AvailableVoices(gender, last)[i] : i \in 1..Len(AvailableVoices(gender, last))}

\* The values of random.randint(a, b) the model draws: the two ends of the range.
RandInt(a, b) == {x \in a..b : x = a \/ x = b}

\* f"{pitch:+}": the sign is always shown
Signed(n) == [sign |-> IF n < 0 THEN "-" ELSE "+", abs |-> IF n < 0 THEN -n ELSE n]

\* Variant: the race is not looked at, every race draws from the default range.
GetRandomPitchAnyRace(race) == {Signed(n) : n \in RandInt(-10, 10)}

GetRandomPitch(race) ==
    {Signed(n) : n \in IF race = "Lalafell" THEN RandInt(10, 20)
                       ELSE IF race = "Roegadyn" THEN RandInt(-20, -10)
                       ELSE RandInt(-10, 10)}

----------------------------------------------------------------------------
(* The speaker file *)

\* Variant: the lookup compares the name with the stored race and the race with the
\* stored name.
FindSpeakerSwapped(data, name, race) ==
    LET at == {i \in 1..Len(data) : data[i].name = race /\ data[i].race = name}
    IN  IF at = {} THEN <<>> ELSE <<data[CHOOSE i \in at : \A j \in at : i <= j]>>

\* next((s for s in speaker_data if name and race match), None)
FindSpeaker(data, name, race) ==
    LET at == {i \in 1..Len(data) : data[i].name = name /\ data[i].race = race}
    IN  IF at = {} THEN <<>> ELSE <<data[CHOOSE i \in at : \A j \in at : i <= j]>>

\* Variant: the file is rewritten with the new record alone, the records read are dropped.
HandleSpeakerInfoOverwrite(data, info) == <<info>>

\* The content handle_speaker_info leaves in the file when its write succeeds.
HandleSpeakerInfo(data, info) ==
    IF ~ \E i \in 1..Len(data) :
            /\ data[i].name = info.name
            /\ data[i].gender = info.gender
            /\ data[i].race = info.race
    THEN Append(data, info)
    ELSE data

SpeakerInfo(msg, voice, pitch) ==
    [name |-> msg.Speaker, gender |-> msg.Gender, race |-> msg.Race,
     voice |-> voice, pitch |-> pitch]

----------------------------------------------------------------------------
(* cleanup_old_files: the files of the output directory *)

\* A regular file of the directory is [name, mtime].  files[:stop] of a Python list, for
\* any integer stop: a negative stop counts from the end, and files[:-0] is files[:0].
SliceTo(files, stop) ==
    LET n == Len(files)
        upto == IF stop < 0 THEN (IF n + stop < 0 THEN 0 ELSE n + stop)
                ELSE (IF stop < n THEN stop ELSE n)
    IN  SubSeq(files, 1, upto)

\* The directory when it holds n files: speak_text names each file after the time it is
\* written, so a file is told from the others by its age: file i is the i-th oldest.
Listing(n) == {[name |-> i, mtime |-> i] : i \in 1..n}

\* The lists files.sort(key=os.path.getmtime) can leave: os.listdir returns the files in
\* any order and the sort keeps that order between files of equal time.
SortedByMtime(files) ==
    {s \in [1..Cardinality(files) -> files] :
        /\ \A i, j \in 1..Cardinality(files) : i # j => s[i] # s[j]
        /\ \A i, j \in 1..Cardinality(files) : i < j => s[i].mtime <= s[j].mtime}

\* old_files, for each order of the sort: empty when the limit is not exceeded
OldFiles(files, max_files) ==
    {IF Len(s) > max_files THEN SliceTo(s, 0 - max_files) ELSE <<>> : s \in SortedByMtime(files)}

\* The directories cleanup_old_files can leave when every os.remove succeeds.
CleanupOldFiles(files, max_files) ==
    {files \ {old[i] : i \in 1..Len(old)} : old \in OldFiles(files, max_files)}

\* The directories it can leave when an os.remove raises: the files before the failing
\* one are gone, the failing one and those after it are left.
CleanupInterrupted(files, max_files) ==
    UNION {{files \ {old[i] : i \in 1..(j - 1)} : j \in 1..Len(old)} :
              old \in OldFiles(files, max_files)}

----------------------------------------------------------------------------
(* The client: listen() and main() *)

Min(a, b) == IF a < b THEN a ELSE b

\* Where the coroutine is suspended in an await.
AwaitPoints == {"connecting", "receiving", "synthesizing", "sleeping"}

SayOf(m) == m.Type = "Say"

\* The arguments of edge_tts.Communicate in speak_text
SynthCall(text, voice, pitch) ==
    [op |-> "synth", text |-> text, voice |-> voice,
     pitch |-> [sign |-> pitch.sign, abs |-> pitch.abs, unit |-> "Hz"], rate |-> "+25%"]

Call(op) == [op |-> op]

\* Variant: no clause tells CancelledError apart, the generic handler takes it too.
OnExceptionSwallow(e) == "sleeping"

\* The except clauses of listen(): where each exception raised in the try block leads.
OnException(e) ==
    IF e = "CancelledError" THEN "returned" ELSE "sleeping"

\* An exception raised while connecting or connected, after the effects sofar.
Raise(e, sofar) ==
    /\ pc' = OnException(e)
    /\ err' = e
    /\ retries' = Min(retries + 1, MaxRetries)
    /\ inflight' = <<>>
    /\ calls' = sofar

\* Variant: the synthesis is started as a task of its own and the loop does not wait for it.
SpeakTextDetached(text, voice, pitch, sofar) ==
    /\ pc' = "receiving"
    /\ inflight' = <<SynthCall(text, voice, pitch)>>
    /\ calls' = Append(sofar, SynthCall(text, voice, pitch))
    /\ UNCHANGED <<err, retries>>

\* await speak_text(...): the synthesis is started and the coroutine waits for it.
SpeakText(text, voice, pitch, sofar) ==
    /\ pc' = "synthesizing"
    /\ inflight' = <<SynthCall(text, voice, pitch)>>
    /\ calls' = Append(sofar, SynthCall(text, voice, pitch))
    /\ UNCHANGED <<err, retries>>

\* The loop goes back to await websocket.recv().
NextMessage(sofar) ==
    /\ pc' = "receiving"
    /\ inflight' = <<>>
    /\ calls' = sofar
    /\ UNCHANGED <<err, retries>>

\* replace_strings(payload.lower(), config["string_replacements"]) for each payload of
\* the stream, computed once
Replaced == [p \in Payloads |-> ReplaceStrings(Lower(p), StringReplacements)]

\* payload = replace_strings(payload.lower(), ...); if payload: await speak_text(...)
SpeakPayload(msg, voice, pitch, sofar) ==
    LET payload == Replaced[msg.Payload]
    IN  IF ~ payload.ok THEN Raise("KeyError", sofar)
        ELSE IF payload.text # <<>> THEN SpeakText(payload.text, voice, pitch, sofar)
        ELSE NextMessage(sofar)

Init ==
    /\ pc = "connecting"
    /\ store = <<>>
    /\ last_voice = None
    /\ cur = <<>>
    /\ found = <<>>
    /\ calls = <<>>
    /\ inflight = <<>>
    /\ mixer = "init"
    /\ err = "none"
    /\ retries = 0
    /\ cancelledAt = "none"
    /\ pending = FALSE
    /\ outdir = 0
    /\ call = None
    /\ ret = <<>>

\* The task runs on only while no cancellation is pending.
Running == ~ pending

\* websockets.connect succeeds
ConnectOk ==
    /\ pc = "connecting" /\ Running
    /\ pc' = "receiving"
    /\ retries' = 0
    /\ UNCHANGED <<store, last_voice, cur, found, calls, inflight, mixer, err, cancelledAt, pending,
                   outdir, call, ret>>

\* websockets.connect raises ConnectionRefusedError
ConnectRefused ==
    /\ pc = "connecting" /\ Running
    /\ Raise("ConnectionRefusedError", <<>>)
    /\ UNCHANGED <<store, last_voice, cur, found, mixer, cancelledAt, pending, outdir, call, ret>>

\* websockets.connect raises another exception
ConnectError ==
    /\ pc = "connecting" /\ Running
    /\ Raise("Exception", <<>>)
    /\ UNCHANGED <<store, last_voice, cur, found, mixer, cancelledAt, pending, outdir, call, ret>>

\* Variant: the loop stops retrying once the counter is at its ceiling.
SleepDoneCapped ==
    /\ pc = "sleeping" /\ Running
    /\ retries < MaxRetries
    /\ pc' = "connecting"
    /\ err' = "none"
    /\ cur' = <<>> /\ found' = <<>> /\ calls' = <<>>
    /\ UNCHANGED <<store, last_voice, inflight, mixer, retries, cancelledAt, pending,
                   outdir, call, ret>>

\* await asyncio.sleep(5) completes and the outer loop connects again
SleepDone ==
    /\ pc = "sleeping" /\ Running
    /\ pc' = "connecting"
    /\ err' = "none"
    /\ cur' = <<>> /\ found' = <<>> /\ calls' = <<>>
    /\ UNCHANGED <<store, last_voice, inflight, mixer, retries, cancelledAt, pending,
                   outdir, call, ret>>

\* websocket.recv() raises ConnectionClosed
ConnectionClosed ==
    /\ pc = "receiving" /\ Running
    /\ Raise("ConnectionClosed", <<>>)
    /\ cur' = <<>> /\ found' = <<>>
    /\ UNCHANGED <<store, last_voice, mixer, cancelledAt, pending, outdir, call, ret>>

\* websocket.recv() returns a message
Recv(msg) ==
    /\ pc = "receiving" /\ Running
    /\ SayOf(msg) /\ FindSpeaker(store, msg.Speaker, msg.Race) = <<>> => Len(store) < MaxSpeakers
    /\ pc' = "dispatching"
    /\ cur' = <<msg>>
    /\ found' = <<>>
    /\ calls' = <<>>
    /\ UNCHANGED <<store, last_voice, inflight, mixer, err, retries, cancelledAt, pending,
                   outdir, call, ret>>

\* Variant: a message that does not decode is skipped and the loop receives the next one.
DispatchMalformedSkipped ==
    /\ pc = "dispatching" /\ cur[1].Type = "Malformed"
    /\ NextMessage(<<>>)
    /\ UNCHANGED <<store, last_voice, cur, found, mixer, cancelledAt, pending, outdir, call, ret>>

\* json.loads(message) raises
DispatchMalformed ==
    /\ pc = "dispatching" /\ cur[1].Type = "Malformed"
    /\ Raise("JSONDecodeError", <<>>)
    /\ UNCHANGED <<store, last_voice, cur, found, mixer, cancelledAt, pending, outdir, call, ret>>

\* Variant: the record found is handed to handle_speaker_info again with the event's gender.
DispatchSayKnownRewrites ==
    /\ pc = "dispatching" /\ SayOf(cur[1])
    /\ FindSpeaker(store, cur[1].Speaker, cur[1].Race) # <<>>
    /\ LET speaker == FindSpeaker(store, cur[1].Speaker, cur[1].Race)[1]
           data == HandleSpeakerInfo(store, SpeakerInfo(cur[1], speaker.voice, speaker.pitch))
       IN  /\ found' = <<speaker>>
           /\ store' = data
           /\ SpeakPayload(cur[1], speaker.voice, speaker.pitch,
                           IF data # store THEN <<Call("write")>> ELSE <<>>)
    /\ UNCHANGED <<last_voice, cur, mixer, cancelledAt, pending, outdir, call, ret>>

\* Type == "Say", the (name, race) lookup finds a record
DispatchSayKnown ==
    /\ pc = "dispatching" /\ SayOf(cur[1])
    /\ FindSpeaker(store, cur[1].Speaker, cur[1].Race) # <<>>
    /\ LET speaker == FindSpeaker(store, cur[1].Speaker, cur[1].Race)[1]
       IN  /\ found' = <<speaker>>
           /\ SpeakPayload(cur[1], speaker.voice, speaker.pitch, <<>>)
    /\ UNCHANGED <<store, last_voice, cur, mixer, cancelledAt, pending, outdir, call, ret>>

\* Variant: every Say event takes the allocation branch and its record is appended
\* without the lookup and without the duplicate check.
DispatchSayUnchecked ==
    /\ pc = "dispatching" /\ SayOf(cur[1])
    /\ \E voice \in GetRandomVoice(cur[1].Gender, last_voice) :
       \E pitch \in GetRandomPitch(cur[1].Race) :
          /\ last_voice' = voice
          /\ store' = Append(store, SpeakerInfo(cur[1], voice, pitch))
          /\ SpeakPayload(cur[1], voice, pitch, <<Call("write")>>)
    /\ found' = <<>>
    /\ UNCHANGED <<cur, mixer, cancelledAt, pending, outdir, call, ret>>

\* Type == "Say", no record: a voice and a pitch are drawn and the record is written
DispatchSayNew ==
    /\ pc = "dispatching" /\ SayOf(cur[1])
    /\ FindSpeaker(store, cur[1].Speaker, cur[1].Race) = <<>>
    /\ \E voice \in GetRandomVoice(cur[1].Gender, last_voice) :
       \E pitch \in GetRandomPitch(cur[1].Race) :
          LET data == HandleSpeakerInfo(store, SpeakerInfo(cur[1], voice, pitch))
          IN  /\ last_voice' = voice
              /\ store' = data
              /\ SpeakPayload(cur[1], voice, pitch,
                              IF data # store THEN <<Call("write")>> ELSE <<>>)
    /\ found' = <<>>
    /\ UNCHANGED <<cur, mixer, cancelledAt, pending, outdir, call, ret>>

\* Type == "Say", no record, and open(speaker_file_path, "w") raises OSError
DispatchSayWriteFails ==
    /\ pc = "dispatching" /\ SayOf(cur[1])
    /\ FindSpeaker(store, cur[1].Speaker, cur[1].Race) = <<>>
    /\ \E voice \in GetRandomVoice(cur[1].Gender, last_voice) :
          last_voice' = voice
    /\ Raise("OSError", <<>>)
    /\ found' = <<>>
    /\ UNCHANGED <<store, cur, mixer, cancelledAt, pending, outdir, call, ret>>

\* Type == "Say", no record, and no voice is left to choose: random.choice raises
DispatchSayNoVoice ==
    /\ pc = "dispatching" /\ SayOf(cur[1])
    /\ FindSpeaker(store, cur[1].Speaker, cur[1].Race) = <<>>
    /\ GetRandomVoice(cur[1].Gender, last_voice) = {}
    /\ Raise("IndexError", <<>>)
    /\ found' = <<>>
    /\ UNCHANGED <<store, last_voice, cur, mixer, cancelledAt, pending, outdir, call, ret>>

\* Variant: the Cancel branch is never taken, the event is ignored.
DispatchCancelIgnored ==
    /\ pc = "dispatching" /\ cur[1].Type = "Cancel"
    /\ NextMessage(<<>>)
    /\ UNCHANGED <<store, last_voice, cur, found, mixer, cancelledAt, pending, outdir, call, ret>>

\* Type == "Cancel": pygame.mixer.music.stop()
DispatchCancel ==
    /\ pc = "dispatching" /\ cur[1].Type = "Cancel"
    /\ NextMessage(<<Call("stop")>>)
    /\ UNCHANGED <<store, last_voice, cur, found, mixer, cancelledAt, pending, outdir, call, ret>>

\* Any other Type: nothing is done
DispatchOther ==
    /\ pc = "dispatching" /\ cur[1].Type = "Other"
    /\ NextMessage(<<>>)
    /\ UNCHANGED <<store, last_voice, cur, found, mixer, cancelledAt, pending, outdir, call, ret>>

\* communicate.save completes and has written the new file; it is loaded and played,
\* and cleanup_old_files trims the directory
SynthDone ==
    /\ pc = "synthesizing" /\ Running
    /\ \E left \in CleanupOldFiles(Listing(outdir + 1), MaxOutputFiles) :
          outdir' = Cardinality(left)
    /\ NextMessage(calls \o <<Call("load"), Call("play"), Call("cleanup")>>)
    /\ UNCHANGED <<store, last_voice, cur, found, mixer, cancelledAt, pending, call, ret>>

\* Variant: the failure of save() surfaces only after the file was loaded and played.
SynthFailsAfterPlay ==
    /\ pc = "synthesizing" /\ Running
    /\ outdir < MaxArtifacts
    /\ outdir' = outdir + 1
    /\ Raise("SynthesisError", calls \o <<Call("load"), Call("play")>>)
    /\ UNCHANGED <<store, last_voice, cur, found, mixer, cancelledAt, pending, call, ret>>

\* communicate.save raises, before or after it has created the file
SynthFails ==
    /\ pc = "synthesizing" /\ Running
    /\ \E made \in {0, 1} :
          /\ outdir + made <= MaxArtifacts
          /\ outdir' = outdir + made
    /\ Raise("SynthesisError", calls)
    /\ UNCHANGED <<store, last_voice, cur, found, mixer, cancelledAt, pending, call, ret>>

\* pygame.mixer.music.load raises: the new file stays and the directory is not trimmed
LoadFails ==
    /\ pc = "synthesizing" /\ Running
    /\ outdir < MaxArtifacts
    /\ outdir' = outdir + 1
    /\ Raise("pygame.error", Append(calls, Call("load")))
    /\ UNCHANGED <<store, last_voice, cur, found, mixer, cancelledAt, pending, call, ret>>

\* The file is loaded and played, and an os.remove of cleanup_old_files raises
CleanupFails ==
    /\ pc = "synthesizing" /\ Running
    /\ \E left \in CleanupInterrupted(Listing(outdir + 1), MaxOutputFiles) :
          /\ Cardinality(left) <= MaxArtifacts
          /\ outdir' = Cardinality(left)
    /\ Raise("PermissionError", calls \o <<Call("load"), Call("play"), Call("cleanup")>>)
    /\ UNCHANGED <<store, last_voice, cur, found, mixer, cancelledAt, pending, call, ret>>

\* The hosting process cancels the task (task.cancel(), or an interrupt of asyncio.run).
HostCancel ==
    /\ pc \in AwaitPoints \cup {"dispatching"} /\ cancelledAt = "none"
    /\ cancelledAt' = pc
    /\ pending' = TRUE
    /\ UNCHANGED <<pc, store, last_voice, cur, found, calls, inflight, mixer, err, retries,
                   outdir, call, ret>>

\* CancelledError is raised at the await the coroutine is suspended in.
\*   in recv: the inner handler returns; in connect or save: the outer handler returns;
\*   in sleep, inside an except clause: it leaves listen() and main() catches it.
\* listen() is left and what it was doing is dropped.
Cancelled ==
    /\ pc \in AwaitPoints /\ pending
    /\ pending' = FALSE
    /\ pc' = IF pc \in {"connecting", "synthesizing"} THEN OnException("CancelledError")
             ELSE "returned"
    /\ inflight' = <<>>
    /\ cur' = <<>> /\ found' = <<>> /\ calls' = <<>>
    /\ err' = "none" /\ retries' = 0
    /\ UNCHANGED <<store, last_voice, mixer, cancelledAt, outdir, call, ret>>

\* main(): finally: pygame.quit()
MainFinally ==
    /\ pc = "returned"
    /\ mixer' = "quit"
    /\ pc' = "exited"
    /\ UNCHANGED <<store, last_voice, cur, found, calls, inflight, err, retries, cancelledAt, pending,
                   outdir, call, ret>>

Next ==
    \/ ConnectOk
    \/ ConnectRefused
    \/ ConnectError
    \/ SleepDone
    \/ ConnectionClosed
    \/ \E msg \in Messages : Recv(msg)
    \/ DispatchMalformed
    \/ DispatchSayKnown
    \/ DispatchSayNew
    \/ DispatchSayWriteFails
    \/ DispatchSayNoVoice
    \/ DispatchCancel
    \/ DispatchOther
    \/ SynthDone
    \/ SynthFails
    \/ LoadFails
    \/ CleanupFails
    \/ HostCancel
    \/ Cancelled
    \/ MainFinally

Spec == Init /\ [][Next]_vars

\* The code between two awaits: the dispatch of the message received
Dispatch ==
    \/ DispatchMalformed
    \/ DispatchSayKnown
    \/ DispatchSayNew
    \/ DispatchSayWriteFails
    \/ DispatchSayNoVoice
    \/ DispatchCancel
    \/ DispatchOther

\* The steps the program takes by itself: the running coroutine goes on to its next
\* await, the retry delay ends, a pending cancellation is raised, main() runs its
\* finally.  At most one of them is enabled at a time.
Resume == Dispatch \/ SleepDone \/ Cancelled \/ MainFinally

\* The event loop keeps running the coroutine; what the server and the host do, and
\* whether a connection attempt or a synthesis ever ends, is left open.
FairSpec == Spec /\ WF_vars(Resume)

----------------------------------------------------------------------------
(* cleanup_old_files and replace_strings called on their own, on any directory and limit
   and on any text and replacement dictionary *)

\* Directories: sets of files with distinct names
Directories ==
    {d \in SUBSET [name : 1..MaxFiles, mtime : 1..MaxMtime] :
        \A f, g \in d : f.name = g.name => f = g}

\* Texts, lower-cased as listen() passes them, and replacement dictionaries
Texts == {Lower(p) : p \in Payloads} \cup { <<" ">>, <<"a", "b">>, <<"b", " ", "a">> }

Dictionaries == { <<>>, StringReplacements }

FunInit ==
    /\ pc = "connecting"
    /\ store = <<>>
    /\ last_voice = None
    /\ cur = <<>>
    /\ found = <<>>
    /\ calls = <<>>
    /\ inflight = <<>>
    /\ mixer = "init"
    /\ err = "none"
    /\ retries = 0
    /\ cancelledAt = "none"
    /\ pending = FALSE
    /\ outdir = 0
    /\ ret = <<>>
    /\ \/ \E d \in Directories, m \in 0..MaxFiles :
             call = [fn |-> "cleanup_old_files", directory |-> d, max_files |-> m]
       \/ \E t \in Texts, r \in Dictionaries :
             call = [fn |-> "replace_strings", text |-> t, replacements |-> r]

\* cleanup_old_files(directory, max_files), every os.remove succeeding: the directory left
CallCleanupOldFiles ==
    /\ call.fn = "cleanup_old_files" /\ ret = <<>>
    /\ \E left \in CleanupOldFiles(call.directory, call.max_files) : ret' = <<left>>
    /\ UNCHANGED <<pc, store, last_voice, cur, found, calls, inflight, mixer, err, retries,
                   cancelledAt, pending, outdir, call>>

\* replace_strings(text, replacements): the text returned, or the KeyError raised
CallReplaceStrings ==
    /\ call.fn = "replace_strings" /\ ret = <<>>
    /\ ret' = <<ReplaceStrings(call.text, call.replacements)>>
    /\ UNCHANGED <<pc, store, last_voice, cur, found, calls, inflight, mixer, err, retries,
                   cancelledAt, pending, outdir, call>>

FunNext == CallCleanupOldFiles \/ CallReplaceStrings

FunSpec == FunInit /\ [][FunNext]_vars

----------------------------------------------------------------------------
(* Properties *)

\* What speak_text passes to the synthesis for a stored pitch
Hz(pitch) == [sign |-> pitch.sign, abs |-> pitch.abs, unit |-> "Hz"]

\* The text of the current message after lower-casing and replacement
Normalized(msg) == Replaced[msg.Payload].text

HasCall(op) == \E i \in 1..Len(calls) : calls[i].op = op

C2_KnownSayWritesNothing ==
    [][pc = "dispatching" /\ SayOf(cur[1])
         /\ FindSpeaker(store, cur[1].Speaker, cur[1].Race) # <<>>
       => /\ store' = store
          /\ \A i \in 1..Len(calls') : calls'[i].op # "write"]_vars

\* A Say event for a known pair, carrying another gender than the record's, was dispatched.
C2_Witness ==
    /\ pc \in {"receiving", "synthesizing"}
    /\ cur # <<>> /\ found # <<>>
    /\ cur[1].Gender # found[1].gender
    /\ ~ HasCall("write")

\* The exceptions raised by the collaborators: the store write, the synthesis, the playback
CollaboratorFailures == {"OSError", "SynthesisError", "pygame.error"}

\* cur is a Say event whose dispatch has run (to its end, into the synthesis, or into an error)
Dispatched ==
    /\ pc \in {"receiving", "synthesizing", "sleeping"}
    /\ cur # <<>>
    /\ SayOf(cur[1])

Range(seq) == {seq[i] : i \in 1..Len(seq)}

\* C3: a Say event for a pair without a record, with a payload that is not empty after
\* normalization and no collaborator failing, appends one record for the pair with a
\* voice of the pool of the event's gender, and makes one synthesis call with the
\* normalized text and that voice and pitch, followed by one load and one play.
C3_NewSayInsertsAndSpeaks ==
    Dispatched /\ found = <<>> /\ Normalized(cur[1]) # <<>> /\ err \notin CollaboratorFailures
    => /\ store # <<>>
       /\ store[Len(store)].name = cur[1].Speaker
       /\ store[Len(store)].race = cur[1].Race
       /\ store[Len(store)].voice \in Range(GetPool(cur[1].Gender))
       /\ Cardinality({i \in 1..Len(store) :
              store[i].name = cur[1].Speaker /\ store[i].race = cur[1].Race}) = 1
       /\ Len(calls) >= 2
       /\ calls[1] = Call("write")
       /\ calls[2] = SynthCall(Normalized(cur[1]), store[Len(store)].voice, store[Len(store)].pitch)
       /\ pc = "receiving" =>
            calls = <<calls[1], calls[2], Call("load"), Call("play"), Call("cleanup")>>

\* C4: an exception while connecting or connected sends the client into its retry delay
\* and never ends listen(); the delay always ends in a new connection attempt (unless the
\* host cancels), however many attempts failed before; an attempt ends connected, in
\* another delay, or cancelled.
C4_RetriesForever ==
    /\ [](pc \in {"returned", "exited"} => cancelledAt # "none")
    /\ [][err' # err /\ err' # "none" => pc' = "sleeping"]_vars
    /\ [][pc = "connecting" /\ pc' # pc => pc' \in {"receiving", "sleeping", "returned"}]_vars
    /\ (pc = "sleeping" ~> (pc = "connecting" \/ cancelledAt # "none"))

\* The client is connecting again after MaxRetries consecutive delays.
C4_Witness == pc = "connecting" /\ retries = MaxRetries /\ cancelledAt = "none"

\* C5: once the host has requested cancellation, wherever the client was, no new connection
\* attempt starts, listen() is left, and pygame.quit() has run when the process ends.
C5_CancelExits ==
    /\ [][cancelledAt # "none" /\ pc' = "connecting" => pc = "connecting"]_vars
    /\ [](pc = "exited" => mixer = "quit" /\ cancelledAt # "none")
    /\ (cancelledAt # "none" ~> pc = "exited")

\* The process ended after a cancellation requested during the dispatch of an event,
\* with speakers on file.
C5_Witness ==
    /\ pc = "exited" /\ mixer = "quit"
    /\ cancelledAt = "dispatching" /\ store # <<>>

\* C6: a synthesis is in flight only while the coroutine waits for it; a message is
\* received only from the receive await with no synthesis in flight, so no event (and no
\* Cancel) is dispatched beside another one.
C6_SequentialDispatch ==
    /\ [](inflight # <<>> => pc = "synthesizing")
    /\ [](pc = "synthesizing" =>
            /\ inflight # <<>> /\ cur # <<>> /\ SayOf(cur[1])
            /\ calls[Len(calls)] = inflight[1])
    /\ [][cur' # cur /\ cur' # <<>> => pc = "receiving" /\ inflight = <<>>]_vars
    /\ [][pc = "dispatching" /\ pc' # pc => inflight = <<>>]_vars

\* An event was dispatched up to the start of playback before the loop received again.
C6_Witness ==
    /\ pc = "receiving" /\ cur # <<>> /\ SayOf(cur[1])
    /\ HasCall("play") /\ inflight = <<>>

\* C7: the dispatch of a Cancel event makes the one call stop() and nothing else: no
\* synthesis, no playback start, no change of the speaker file.
C7_CancelOnlyStops ==
    [][pc = "dispatching" /\ cur[1].Type = "Cancel" /\ pc' # pc
       => /\ calls' = <<Call("stop")>>
          /\ inflight' = <<>>
          /\ store' = store
          /\ pc' = "receiving"]_vars

\* A Cancel event was dispatched.
C7_Witness ==
    /\ pc = "receiving" /\ cur # <<>> /\ cur[1].Type = "Cancel"
    /\ calls = <<Call("stop")>>

\* C8: no two records of the speaker file have the same name, gender and race.
C8_UniqueIdentity ==
    \A i, j \in 1..Len(store) :
        i # j => \/ store[i].name # store[j].name
                 \/ store[i].gender # store[j].gender
                 \/ store[i].race # store[j].race

\* Two records that differ in race alone.
C8_Witness ==
    /\ Len(store) = 2
    /\ store[1].name = store[2].name
    /\ store[1].gender = store[2].gender
    /\ store[1].race # store[2].race

\* C9: a Say event whose payload is empty after normalization makes no synthesis and no
\* playback call and raises no error (a failing store write aside): the loop goes on to
\* the next receive.
C9_EmptyPayloadIsNoOp ==
    Dispatched /\ Normalized(cur[1]) = <<>> /\ err # "OSError"
    => /\ pc = "receiving"
       /\ err = "none"
       /\ ~ HasCall("synth") /\ ~ HasCall("load") /\ ~ HasCall("play")

\* C10: for every gender, excluding the last voice from its pool leaves the other voices
\* of the pool, or the whole pool when it held the last voice alone; choosing never fails.
C10_ExclusionNeverEmptiesPool ==
    /\ \A g \in Genders :
          last_voice \in Range(GetPool(g)) =>
              GetRandomVoice(g, last_voice) =
                  IF Range(GetPool(g)) \ {last_voice} = {}
                  THEN Range(GetPool(g))
                  ELSE Range(GetPool(g)) \ {last_voice}
    /\ err # "IndexError"

\* C11: for a directory of N files and a limit M with 0 <= M < N, cleanup_old_files
\* leaves exactly M files, none of them older than a file it deleted.
C11_CleanupKeepsNewest ==
    call.fn = "cleanup_old_files" /\ ret # <<>>
        /\ call.max_files < Cardinality(call.directory)
    => /\ Cardinality(ret[1]) = call.max_files
       /\ ret[1] \subseteq call.directory
       /\ \A k \in ret[1] : \A d \in call.directory \ ret[1] : k.mtime >= d.mtime

\* C12: replace_strings with an empty dictionary raises nothing and returns the text it
\* was given.
C12_EmptyRulesIdentity ==
    call.fn = "replace_strings" /\ ret # <<>> /\ call.replacements = <<>>
    => ret[1] = [ok |-> TRUE, text |-> call.text]

\* The number a stored pitch string stands for
PitchValue(pitch) == IF pitch.sign = "-" THEN 0 - pitch.abs ELSE pitch.abs

\* The range the pitch of a race has to lie in
PitchRange(race) ==
    IF race = "Lalafell" THEN 10..20
    ELSE IF race = "Roegadyn" THEN (0 - 20)..(0 - 10)
    ELSE (0 - 10)..10

\* C13: every pitch get_random_pitch draws for a race, and the pitch of every record in
\* the speaker file, lies in 10..20 for Lalafell, in -20..-10 for Roegadyn and in -10..10
\* for any other race.
C13_PitchInRaceRange ==
    /\ \A race \in {c[2] : c \in Cast} \cup {"Hyur", ""} :
          \A pitch \in GetRandomPitch(race) : PitchValue(pitch) \in PitchRange(race)
    /\ \A i \in 1..Len(store) : PitchValue(store[i].pitch) \in PitchRange(store[i].race)

\* The file holds a Lalafell at the top of its range and a Roegadyn at the bottom of its.
C13_Witness ==
    \E i, j \in 1..Len(store) :
        /\ store[i].race = "Lalafell" /\ PitchValue(store[i].pitch) = 20
        /\ store[j].race = "Roegadyn" /\ PitchValue(store[j].pitch) = 0 - 20

\* C14: get_random_voice never returns the voice to avoid when the pool of the gender has
\* more than one entry, and a record added to the speaker file never carries the voice
\* that was the last one given out before it.
C14_NeverRepeatsLastVoice ==
    /\ [](\A g \in Genders \cup {"Other"} : \A last \in Range(Voices.male) \cup Range(Voices.female) :
            Len(GetPool(g)) > 1 => last \notin GetRandomVoice(g, last))
    /\ [][store' # store =>
            /\ store'[Len(store')].voice = last_voice'
            /\ last_voice' # last_voice]_vars

\* Two speakers of the gender with several voices were added one after the other.
C14_Witness ==
    /\ Len(store) = 2
    /\ store[1].gender = "Male" /\ store[2].gender = "Male"
    /\ store[1].voice # store[2].voice
    /\ last_voice = store[2].voice

\* C15: when the synthesis of a Say event fails, nothing is loaded or played and the
\* directory is not trimmed for that event; the failure ends the dispatch in the retry
\* delay of the generic handler, which ends in a new connection attempt, and listen() is
\* left only if the host cancels.
C15_SynthFailureSkipsPlayback ==
    /\ [][pc = "synthesizing" /\ err' = "SynthesisError" =>
            /\ pc' = "sleeping"
            /\ calls' = calls /\ inflight' = <<>>
            /\ outdir' >= outdir
            /\ store' = store]_vars
    /\ [](err = "SynthesisError" =>
            /\ pc = "sleeping"
            /\ ~ HasCall("load") /\ ~ HasCall("play") /\ ~ HasCall("cleanup"))
    /\ [][err = "SynthesisError" /\ pc' # pc =>
            \/ pc' = "connecting"
            \/ pc' = "returned" /\ cancelledAt # "none"]_vars
    /\ (err = "SynthesisError" ~> (pc = "connecting" \/ cancelledAt # "none"))

\* The synthesis for a known speaker failed and the client is in its retry delay.
C15_Witness ==
    /\ err = "SynthesisError" /\ pc = "sleeping"
    /\ found # <<>> /\ HasCall("synth") /\ cancelledAt = "none"

\* C17: a message that does not decode makes no call and no write; its dispatch ends the
\* receive loop in the retry delay of the generic handler, which ends in a new connection
\* attempt, and listen() is left only if the host cancels.
C17_MalformedMessageReconnects ==
    /\ [][pc = "dispatching" /\ cur[1].Type = "Malformed" /\ pc' # pc =>
            /\ pc' = "sleeping" /\ err' = "JSONDecodeError"
            /\ calls' = <<>> /\ inflight' = <<>>
            /\ store' = store /\ last_voice' = last_voice /\ outdir' = outdir]_vars
    /\ [](err = "JSONDecodeError" => pc = "sleeping" /\ calls = <<>>)
    /\ [][err = "JSONDecodeError" /\ pc' # pc =>
            \/ pc' = "connecting"
            \/ pc' = "returned" /\ cancelledAt # "none"]_vars
    /\ (err = "JSONDecodeError" ~> (pc = "connecting" \/ cancelledAt # "none"))

\* A message that did not decode arrived with speakers on file, and the client is in its
\* retry delay.
C17_Witness ==
    /\ err = "JSONDecodeError" /\ pc = "sleeping"
    /\ cur # <<>> /\ cur[1].Type = "Malformed"
    /\ store # <<>> /\ cancelledAt = "none"

\* C16: when the write of the speaker file fails for a new speaker, the Say event is
\* synthesized all the same, with the voice just allocated, and no error ends its dispatch.
C16_WriteFailureStillSpeaks ==
    Dispatched /\ found = <<>> /\ err = "OSError" /\ Normalized(cur[1]) # <<>>
    => /\ pc \in {"synthesizing", "receiving"}
       /\ \E i \in 1..Len(calls) :
             /\ calls[i].op = "synth"
             /\ calls[i].text = Normalized(cur[1])
             /\ calls[i].voice = last_voice

\* C18: when cleanup_old_files ran and a deletion failed (files over the limit are left),
\* the dispatch of the Say event ended normally: no error, and the client is back at
\* receiving on the same connection.
C18_DeletionFailureNotEscalated ==
    HasCall("cleanup") /\ outdir > MaxOutputFiles
    => pc = "receiving" /\ err = "none"

\* C19: the speaker file never holds two records with the same name and race, whatever
\* genders the events carry; and a Say event whose lookup finds no record and whose
\* dispatch gets through the write always appends its record: the check on name, gender
\* and race never holds it back.
C19_OneRecordPerNameRace ==
    /\ [](\A i, j \in 1..Len(store) :
            i # j => store[i].name # store[j].name \/ store[i].race # store[j].race)
    /\ [][pc = "dispatching" /\ SayOf(cur[1]) /\ pc' # pc
            /\ FindSpeaker(store, cur[1].Speaker, cur[1].Race) = <<>>
            /\ err' \notin {"IndexError", "OSError"}
          => /\ Len(store') = Len(store) + 1
             /\ SubSeq(store', 1, Len(store)) = store
             /\ store'[Len(store')].name = cur[1].Speaker
             /\ store'[Len(store')].race = cur[1].Race
             /\ store'[Len(store')].gender = cur[1].Gender]_vars

\* With two records of one name on file, a Say event for the older one arrived with
\* another gender than the record's and was dispatched as a known speaker.
C19_Witness ==
    /\ Dispatched /\ Len(store) = 2
    /\ store[1].name = store[2].name
    /\ found = <<store[1]>>
    /\ cur[1].Gender # store[1].gender

\* C20: a Say event for a pair without a record whose payload is empty after
\* normalization appends the record of the pair with the voice allocated, which becomes
\* the last voice, and makes no other call (a failing store write aside).
C20_EmptyPayloadStillInserts ==
    Dispatched /\ found = <<>> /\ Normalized(cur[1]) = <<>> /\ err # "OSError"
    => /\ store # <<>>
       /\ store[Len(store)].name = cur[1].Speaker
       /\ store[Len(store)].race = cur[1].Race
       /\ store[Len(store)].voice = last_voice
       /\ calls = <<Call("write")>>
       /\ pc = "receiving"

====
